---- MODULE Spec2Model ----
(***************************************************************************)
(* Model of extract_thermal.js: one run of the script per process.  A run  *)
(* decodes a DJI R-JPEG, computes min/max/average over data[i] / 10,       *)
(* writes <base>_thermal_data.json with writeFileSync and streams          *)
(* <base>_thermal_data.csv through an fs.WriteStream.                      *)
(*                                                                         *)
(* JavaScript numbers are modelled as exact fractions n/d in lowest terms  *)
(* with d >= 0; d = 0 encodes the non-finite values: 1/0 is Infinity,      *)
(* -1/0 is -Infinity and 0/0 is NaN.  Strings built by the script are      *)
(* sequences of one-character strings.                                     *)
(***************************************************************************)
EXTENDS Integers, Sequences, FiniteSets, TLC

\* ------------------------------------------------------------------ bounds
MaxWidth == 2
MaxPixels == 4
MaxConcPixels == 1

\* ----------------------------------------------------------------- numbers
Abs(n) == IF n < 0 THEN 0 - n ELSE n

RECURSIVE GCD(_, _)
GCD(a, b) == IF b = 0 THEN a ELSE GCD(b, a % b)

Num(n, d) ==
  IF d = 0 THEN [n |-> IF n > 0 THEN 1 ELSE IF n < 0 THEN 0 - 1 ELSE 0, d |-> 0]
  ELSE LET g == GCD(Abs(n), Abs(d))
           s == IF d < 0 THEN 0 - 1 ELSE 1
       IN [n |-> s * (n \div g), d |-> s * (d \div g)]

Number(n) == Num(n, 1)
PosInfinity == Num(1, 0)
NegInfinity == Num(0 - 1, 0)
NaN == Num(0, 0)
IsFinite(a) == a.d # 0

\* a < b; false whenever an operand is NaN
Lt(a, b) == /\ a # NaN
            /\ b # NaN
            /\ \/ a.n * b.d < b.n * a.d
               \/ (a = NegInfinity /\ b = PosInfinity)

\* a + b for finite operands (sum starts at 0 and only finite values are added)
Add(a, b) == Num(a.n * b.d + b.n * a.d, a.d * b.d)

\* a / b for finite operands; x/0 is +-Infinity and 0/0 is NaN
Div(a, b) == Num(a.n * b.d, a.d * b.n)

\* ----------------------------------------------------------------- strings
Digit == <<"0", "1", "2", "3", "4", "5", "6", "7", "8", "9">>

RECURSIVE NatToStr(_)
NatToStr(n) == IF n < 10 THEN <<Digit[n + 1]>>
               ELSE NatToStr(n \div 10) \o <<Digit[(n % 10) + 1]>>

IntToStr(n) == IF n < 0 THEN <<"-">> \o NatToStr(0 - n) ELSE NatToStr(n)

\* Number.prototype.toFixed(2)
ToFixed2(a) ==
  IF a = NaN THEN <<"N", "a", "N">>
  ELSE IF a = PosInfinity THEN <<"I", "n", "f", "i", "n", "i", "t", "y">>
  ELSE IF a = NegInfinity THEN <<"-", "I", "n", "f", "i", "n", "i", "t", "y">>
  ELSE LET c == (Abs(a.n) * 200 + a.d) \div (2 * a.d)
       IN (IF a.n < 0 THEN <<"-">> ELSE <<>>) \o NatToStr(c \div 100) \o
          <<".", Digit[((c \div 10) % 10) + 1], Digit[(c % 10) + 1]>>

\* ------------------------------------------------------------------ inputs
\* An input path is directory + file name, the name being stem + extension.
MkPath(dir, stem, ext) == [dir |-> dir, stem |-> stem, ext |-> ext]

Paths == { MkPath("/data", "a", ".jpg"), MkPath("/data", "a", ".JPG"),
           MkPath("/data/in", "a", ".jpg"), MkPath("/data", "b", ".jpg") }

\* path.extname(p) and path.basename(p, ext)
PathExtname(p) == p.ext
PathBasename(p, ext) == IF p.ext = ext THEN p.stem ELSE p.stem \o p.ext

\* path.join(outputDir, `${baseName}${suffix}`): both runs share outputDir,
\* so an output file is identified by its file name.
OutputPath(baseName, suffix) == [base |-> baseName, suffix |-> suffix]

JsonSuffix == "_thermal_data.json"
CsvSuffix == "_thermal_data.csv"

\* Raw codes delivered by the SDK: signed tenths of a degree Celsius.
RawVals == {0 - 5, 215}
ScenarioA == <<200, 205, 210, 215>>

ParamSets == { [distance |-> 5, humidity |-> 70, emissivity |-> 1, reflection |-> 23],
               [distance |-> 2, humidity |-> 50, emissivity |-> 2, reflection |-> 25] }

\* What getTemperatureData returns for an image the SDK accepts.
ThermalData(w, h, data, params) ==
  [width |-> w, height |-> h, data |-> data, parameters |-> params]

\* the grids of width at most maxW with at most maxN pixels over vals
GridsOver(maxW, maxN, vals) ==
  UNION { UNION { { ThermalData(w, h, d, ps) :
                      d \in [1..(w * h) -> vals], ps \in ParamSets } :
                    h \in 0..(maxN \div w) } :
          w \in 1..maxW }

NotRJpeg == [width |-> 0, height |-> 0, data |-> <<>>, parameters |-> "invalid"]

Images == GridsOver(MaxWidth, MaxPixels, RawVals)
            \cup { ThermalData(2, 2, ScenarioA, ps) : ps \in ParamSets }
            \cup { NotRJpeg }

ConcImages == { g \in GridsOver(1, MaxConcPixels, {200, 215}) :
                  g.parameters.distance = 5 } \cup { NotRJpeg }

\* ------------------------------------------------------------------- state
VARIABLES
  procs,        \* the started runs (processes), fixed at start
  inputFile,    \* process.argv[2] of each run
  inputExists,  \* whether inputFile exists on disk
  image,        \* what the SDK makes of the bytes of inputFile
  pc,           \* position of each run in the script
  thermalData,  \* const thermalData
  i,            \* loop index of the loop being executed
  temp,         \* const temp of the statistics loop
  minTemp, maxTemp, sum, avgTemp,
  stdout,       \* the statistics lines written by console.log
  csvStream,    \* the fs.WriteStream of the run
  exitCode,     \* exit status, -1 while running
  outDirExists, \* whether outputDir exists
  files         \* content of the files of outputDir

vars == <<procs, inputFile, inputExists, image, pc, thermalData, i, temp,
          minTemp, maxTemp, sum, avgTemp, stdout, csvStream, exitCode,
          outDirExists, files>>

locals == <<thermalData, i, temp, minTemp, maxTemp, sum, avgTemp>>
inputs == <<procs, inputFile, inputExists, image>>

OutputPaths == { OutputPath(PathBasename(p, PathExtname(p)), x) :
                   p \in Paths, x \in {JsonSuffix, CsvSuffix} }

NoFile == [exists |-> FALSE, complete |-> FALSE, text |-> <<>>]
NoStream == [state |-> "none", path |-> OutputPath("", ""), buffer |-> <<>>,
             pos |-> 0, ending |-> FALSE]
NoData == NotRJpeg
NoStats == [min |-> <<>>, max |-> <<>>, average |-> <<>>]

InitRun(P, Imgs) ==
  /\ procs = P
  /\ inputFile \in [P -> Paths]
  /\ inputExists \in [P -> BOOLEAN]
  /\ image \in [P -> Imgs]
  /\ \A r \in P : inputExists[r] \/ image[r] = NotRJpeg
  /\ pc = [r \in P |-> "start"]
  /\ thermalData = [r \in P |-> NoData]
  /\ i = [r \in P |-> 0]
  /\ temp = [r \in P |-> Number(0)]
  /\ minTemp = [r \in P |-> Number(0)]
  /\ maxTemp = [r \in P |-> Number(0)]
  /\ sum = [r \in P |-> Number(0)]
  /\ avgTemp = [r \in P |-> Number(0)]
  /\ stdout = [r \in P |-> NoStats]
  /\ csvStream = [r \in P |-> NoStream]
  /\ exitCode = [r \in P |-> 0 - 1]
  /\ outDirExists \in BOOLEAN
  /\ files = [f \in OutputPaths |-> NoFile]

Init == InitRun({1}, Images)

\* Two runs on two different input images sharing outputDir.
InitConc == /\ InitRun({1, 2}, ConcImages)
            /\ inputFile[1] # inputFile[2]
            /\ \A r \in procs : inputExists[r]
            /\ outDirExists

\* ------------------------------------------------------ the script, in order
\* lines 19-24: the input file must exist
CheckInput(r) ==
  /\ pc[r] = "start"
  /\ IF inputExists[r]
       THEN pc' = [pc EXCEPT ![r] = "mkdir"] /\ UNCHANGED exitCode
       ELSE pc' = [pc EXCEPT ![r] = "exited"] /\ exitCode' = [exitCode EXCEPT ![r] = 1]
  /\ UNCHANGED <<inputs, locals, stdout, csvStream, outDirExists, files>>

\* lines 27-29: mkdirSync(outputDir, {recursive: true}) when it is missing
MakeOutputDir(r) ==
  /\ pc[r] = "mkdir"
  /\ outDirExists' = TRUE
  /\ pc' = [pc EXCEPT ![r] = "decode"]
  /\ UNCHANGED <<inputs, locals, stdout, csvStream, exitCode, files>>

\* lines 34-45: read the file and decode it; the SDK throws on a file that is
\* not an R-JPEG and control passes to the catch clause
Decode(r) ==
  /\ pc[r] = "decode"
  /\ IF image[r] = NotRJpeg
       THEN pc' = [pc EXCEPT ![r] = "catch"] /\ UNCHANGED thermalData
       ELSE /\ pc' = [pc EXCEPT ![r] = "stats_init"]
            /\ thermalData' = [thermalData EXCEPT ![r] = image[r]]
  /\ UNCHANGED <<inputs, i, temp, minTemp, maxTemp, sum, avgTemp, stdout,
                 csvStream, exitCode, outDirExists, files>>

\* lines 48-50 and the initialiser of the for loop on line 52
StatsInit(r) ==
  /\ pc[r] = "stats_init"
  /\ minTemp' = [minTemp EXCEPT ![r] = PosInfinity]
  /\ maxTemp' = [maxTemp EXCEPT ![r] = NegInfinity]
  /\ sum' = [sum EXCEPT ![r] = Number(0)]
  /\ i' = [i EXCEPT ![r] = 0]
  /\ pc' = [pc EXCEPT ![r] = "stats_loop"]
  /\ UNCHANGED <<inputs, thermalData, temp, avgTemp, stdout, csvStream,
                 exitCode, outDirExists, files>>

\* a conversion that applies an emissivity correction to the raw code
StatTempWithEmissivity(td, k) ==
  Div(Number(td.data[k + 1] * td.parameters.emissivity), Number(10))

\* line 53: thermalData.data[i] / 10 (JavaScript index i is position i + 1)
StatTemp(td, k) == Div(Number(td.data[k + 1]), Number(10))

\* lines 52-57: one iteration of the statistics loop
StatsStep(r) ==
  /\ pc[r] = "stats_loop"
  /\ i[r] < Len(thermalData[r].data)
  /\ LET t == StatTemp(thermalData[r], i[r])
     IN /\ temp' = [temp EXCEPT ![r] = t]
        /\ minTemp' = [minTemp EXCEPT ![r] = IF Lt(t, @) THEN t ELSE @]
        /\ maxTemp' = [maxTemp EXCEPT ![r] = IF Lt(@, t) THEN t ELSE @]
        /\ sum' = [sum EXCEPT ![r] = Add(@, t)]
  /\ i' = [i EXCEPT ![r] = @ + 1]
  /\ UNCHANGED <<inputs, pc, thermalData, avgTemp, stdout, csvStream, exitCode,
                 outDirExists, files>>

\* an average that divides by the last index instead of the length
AverageByLastIndex(s, td) == Div(s, Number(Len(td.data) - 1))

\* line 59: sum / thermalData.data.length
Average(s, td) == Div(s, Number(Len(td.data)))

\* lines 52 (loop exit) and 59
StatsDone(r) ==
  /\ pc[r] = "stats_loop"
  /\ ~(i[r] < Len(thermalData[r].data))
  /\ avgTemp' = [avgTemp EXCEPT ![r] = Average(sum[r], thermalData[r])]
  /\ pc' = [pc EXCEPT ![r] = "log_stats"]
  /\ UNCHANGED <<inputs, thermalData, i, temp, minTemp, maxTemp, sum, stdout,
                 csvStream, exitCode, outDirExists, files>>

\* lines 61-64: the statistics as printed
LogStats(r) ==
  /\ pc[r] = "log_stats"
  /\ stdout' = [stdout EXCEPT ![r] = [min |-> ToFixed2(minTemp[r]),
                                      max |-> ToFixed2(maxTemp[r]),
                                      average |-> ToFixed2(avgTemp[r])]]
  /\ pc' = [pc EXCEPT ![r] = "write_json"]
  /\ UNCHANGED <<inputs, locals, csvStream, exitCode, outDirExists, files>>

\* line 67: the base name of the outputs of a run
BaseName(p) == PathBasename(p, PathExtname(p))

\* JSON.stringify of a number: a non-finite number is serialised as null
JsonNumber(a) == IF IsFinite(a) THEN [type |-> "number", value |-> a]
                 ELSE [type |-> "null", value |-> Number(0)]

\* lines 71-85 and JSON.stringify(output, null, 2)
SummaryText(td, mn, mx, avg) ==
  [width |-> td.width,
   height |-> td.height,
   metadata |-> [distance |-> td.parameters.distance,
                 humidity |-> td.parameters.humidity,
                 emissivity |-> td.parameters.emissivity,
                 reflection |-> td.parameters.reflection],
   statistics |-> [min |-> JsonNumber(mn),
                   max |-> JsonNumber(mx),
                   average |-> JsonNumber(avg)]]

WholeFile(text) == [exists |-> TRUE, complete |-> TRUE, text |-> text]
TruncatedFile == [exists |-> TRUE, complete |-> FALSE, text |-> <<>>]

\* lines 67-88: writeFileSync(jsonOutput, ...) succeeds
WriteJson(r) ==
  /\ pc[r] = "write_json"
  /\ files' = [files EXCEPT ![OutputPath(BaseName(inputFile[r]), JsonSuffix)] =
                 WholeFile(SummaryText(thermalData[r], minTemp[r], maxTemp[r],
                                       avgTemp[r]))]
  /\ pc' = [pc EXCEPT ![r] = "create_csv"]
  /\ UNCHANGED <<inputs, locals, stdout, csvStream, exitCode, outDirExists>>

\* line 87: writeFileSync throws (EACCES, ENOSPC, ...): the file is left as
\* it was or is left truncated; control passes to the catch clause
WriteJsonThrows(r) ==
  /\ pc[r] = "write_json"
  /\ \/ UNCHANGED files
     \/ files' = [files EXCEPT ![OutputPath(BaseName(inputFile[r]), JsonSuffix)] =
                    TruncatedFile]
  /\ pc' = [pc EXCEPT ![r] = "catch"]
  /\ UNCHANGED <<inputs, locals, stdout, csvStream, exitCode, outDirExists>>

\* lines 91-92: fs.createWriteStream(csvOutput); the open is asynchronous
CreateCsvStream(r) ==
  /\ pc[r] = "create_csv"
  /\ csvStream' = [csvStream EXCEPT ![r] =
                     [state |-> "pending",
                      path |-> OutputPath(BaseName(inputFile[r]), CsvSuffix),
                      buffer |-> <<>>, pos |-> 0, ending |-> FALSE]]
  /\ pc' = [pc EXCEPT ![r] = "csv_header"]
  /\ UNCHANGED <<inputs, locals, stdout, exitCode, outDirExists, files>>

\* line 93
HeaderLine == <<"x", ",", "y", ",", "temperature_celsius", "\n">>

\* stream.write(chunk): the chunk is queued until the file accepts it
StreamWrite(st, chunk) == [st EXCEPT !.buffer = Append(@, chunk)]

\* line 93 and the initialiser of the for loop on line 95
CsvHeader(r) ==
  /\ pc[r] = "csv_header"
  /\ csvStream' = [csvStream EXCEPT ![r] = StreamWrite(@, HeaderLine)]
  /\ i' = [i EXCEPT ![r] = 0]
  /\ pc' = [pc EXCEPT ![r] = "csv_loop"]
  /\ UNCHANGED <<inputs, thermalData, temp, minTemp, maxTemp, sum, avgTemp,
                 stdout, exitCode, outDirExists, files>>

\* Math.floor of a finite number
MathFloor(a) == a.n \div a.d

\* line 96
PixelX(td, k) == k % td.width

\* a row coordinate computed from the height instead of the width
PixelYByHeight(td, k) == MathFloor(Div(Number(k), Number(td.height)))

\* line 97
PixelY(td, k) == MathFloor(Div(Number(k), Number(td.width)))

\* a temperature column that holds the raw code, not divided by 10
CsvTempRaw(td, k) == ToFixed2(Number(td.data[k + 1]))

\* line 98: (thermalData.data[i] / 10).toFixed(2)
CsvTemp(td, k) == ToFixed2(Div(Number(td.data[k + 1]), Number(10)))

\* line 99: `${x},${y},${temp}\n`
CsvRow(td, k) ==
  IntToStr(PixelX(td, k)) \o <<",">> \o IntToStr(PixelY(td, k)) \o <<",">> \o
  CsvTemp(td, k) \o <<"\n">>

\* lines 95-100: one iteration of the row loop
CsvStep(r) ==
  /\ pc[r] = "csv_loop"
  /\ i[r] < Len(thermalData[r].data)
  /\ csvStream' = [csvStream EXCEPT ![r] = StreamWrite(@, CsvRow(thermalData[r], i[r]))]
  /\ i' = [i EXCEPT ![r] = @ + 1]
  /\ UNCHANGED <<inputs, pc, thermalData, temp, minTemp, maxTemp, sum, avgTemp,
                 stdout, exitCode, outDirExists, files>>

\* lines 95 (loop exit) and 102-105: csvStream.end(); the synchronous part of
\* the script is over and the process stays alive while the stream has work
CsvEnd(r) ==
  /\ pc[r] = "csv_loop"
  /\ ~(i[r] < Len(thermalData[r].data))
  /\ csvStream' = [csvStream EXCEPT ![r].ending = TRUE]
  /\ pc' = [pc EXCEPT ![r] = "eventloop"]
  /\ UNCHANGED <<inputs, locals, stdout, exitCode, outDirExists, files>>

\* lines 107-109: the catch clause calls process.exit(1)
Catch(r) ==
  /\ pc[r] = "catch"
  /\ exitCode' = [exitCode EXCEPT ![r] = 1]
  /\ pc' = [pc EXCEPT ![r] = "exited"]
  /\ UNCHANGED <<inputs, locals, stdout, csvStream, outDirExists, files>>

\* ------------------------------------------- the write stream (line 92 on)
\* The file is opened with flags 'w' by the thread pool while the script
\* runs on: the file is created, or truncated when it exists.
StreamOpen(r) ==
  /\ pc[r] \in {"csv_header", "csv_loop", "eventloop"}
  /\ csvStream[r].state = "pending"
  /\ csvStream' = [csvStream EXCEPT ![r].state = "open"]
  /\ files' = [files EXCEPT ![csvStream[r].path] = WholeFile(<<>>)]
  /\ UNCHANGED <<inputs, pc, locals, stdout, exitCode, outDirExists>>

\* A gap left in a file by a write beyond its end
Hole == <<"\\0">>

RECURSIVE Holes(_)
Holes(n) == IF n = 0 THEN <<>> ELSE <<Hole>> \o Holes(n - 1)

\* write(fd, chunk) at the position of the descriptor, in units of chunks
WriteAt(text, pos, chunk) ==
  IF pos < Len(text) THEN [text EXCEPT ![pos + 1] = chunk]
  ELSE text \o Holes(pos - Len(text)) \o <<chunk>>

\* Once the script has returned to the event loop the queued chunks are
\* written to the file in order.
StreamFlush(r) ==
  /\ pc[r] = "eventloop"
  /\ csvStream[r].state = "open"
  /\ csvStream[r].buffer # <<>>
  /\ files' = [files EXCEPT ![csvStream[r].path].text =
                 WriteAt(@, csvStream[r].pos, Head(csvStream[r].buffer))]
  /\ csvStream' = [csvStream EXCEPT ![r].buffer = Tail(@), ![r].pos = @ + 1]
  /\ UNCHANGED <<inputs, pc, locals, stdout, exitCode, outDirExists>>

\* end() takes effect once everything queued is written: the descriptor is
\* closed and the stream has finished.
StreamFinish(r) ==
  /\ pc[r] = "eventloop"
  /\ csvStream[r].state = "open"
  /\ csvStream[r].buffer = <<>>
  /\ csvStream[r].ending
  /\ csvStream' = [csvStream EXCEPT ![r].state = "finished"]
  /\ UNCHANGED <<inputs, pc, locals, stdout, exitCode, outDirExists, files>>

\* The open or a write fails (EACCES, EISDIR, ENOSPC, ...): the stream is
\* destroyed with what is still queued and emits 'error'.  The script
\* registers no 'error' listener, so the error is an uncaught exception and
\* the process ends with status 1.
StreamError(r) ==
  /\ pc[r] = "eventloop"
  /\ \/ csvStream[r].state = "pending"
     \/ csvStream[r].state = "open" /\ csvStream[r].buffer # <<>>
  /\ csvStream' = [csvStream EXCEPT ![r].state = "errored"]
  /\ exitCode' = [exitCode EXCEPT ![r] = 1]
  /\ pc' = [pc EXCEPT ![r] = "exited"]
  /\ UNCHANGED <<inputs, locals, stdout, outDirExists, files>>

\* Nothing is left to do: the process ends with status 0.
ProcessExit(r) ==
  /\ pc[r] = "eventloop"
  /\ csvStream[r].state = "finished"
  /\ exitCode' = [exitCode EXCEPT ![r] = 0]
  /\ pc' = [pc EXCEPT ![r] = "exited"]
  /\ UNCHANGED <<inputs, locals, stdout, csvStream, outDirExists, files>>

Next ==
  \/ \E r \in procs : CheckInput(r)
  \/ \E r \in procs : MakeOutputDir(r)
  \/ \E r \in procs : Decode(r)
  \/ \E r \in procs : StatsInit(r)
  \/ \E r \in procs : StatsStep(r)
  \/ \E r \in procs : StatsDone(r)
  \/ \E r \in procs : LogStats(r)
  \/ \E r \in procs : WriteJson(r)
  \/ \E r \in procs : WriteJsonThrows(r)
  \/ \E r \in procs : CreateCsvStream(r)
  \/ \E r \in procs : CsvHeader(r)
  \/ \E r \in procs : CsvStep(r)
  \/ \E r \in procs : CsvEnd(r)
  \/ \E r \in procs : Catch(r)
  \/ \E r \in procs : StreamOpen(r)
  \/ \E r \in procs : StreamFlush(r)
  \/ \E r \in procs : StreamFinish(r)
  \/ \E r \in procs : StreamError(r)
  \/ \E r \in procs : ProcessExit(r)

Spec == Init /\ [][Next]_vars

SpecConc == InitConc /\ [][Next]_vars

\* ------------------------------------------------ reading the artifacts back
\* A reader of the CSV file: lines are split on commas and numerals parsed.
DigitVal(c) == CHOOSE v \in 0..9 : Digit[v + 1] = c

RECURSIVE StrToNat(_)
StrToNat(s) == IF s = <<>> THEN 0
               ELSE StrToNat(SubSeq(s, 1, Len(s) - 1)) * 10 + DigitVal(s[Len(s)])

RECURSIVE Pow10(_)
Pow10(k) == IF k = 0 THEN 1 ELSE 10 * Pow10(k - 1)

HasChar(s, c) == \E k \in 1..Len(s) : s[k] = c
FirstIndex(s, c) == CHOOSE k \in 1..Len(s) : s[k] = c /\ \A j \in 1..(k - 1) : s[j] # c

\* the fields of a line, without its line terminator
RECURSIVE SplitComma(_)
SplitComma(s) ==
  IF HasChar(s, ",")
    THEN <<SubSeq(s, 1, FirstIndex(s, ",") - 1)>> \o
         SplitComma(SubSeq(s, FirstIndex(s, ",") + 1, Len(s)))
    ELSE <<s>>

Fields(line) == SplitComma(SubSeq(line, 1, Len(line) - 1))

\* a decimal numeral [-]digits[.digits] as a number
ParseDecimal(s) ==
  LET neg == s # <<>> /\ s[1] = "-"
      body == IF neg THEN Tail(s) ELSE s
      dot == IF HasChar(body, ".") THEN FirstIndex(body, ".") ELSE Len(body) + 1
      whole == SubSeq(body, 1, dot - 1)
      frac == SubSeq(body, dot + 1, Len(body))
      mag == StrToNat(whole) * Pow10(Len(frac)) + StrToNat(frac)
  IN Num(IF neg THEN 0 - mag ELSE mag, Pow10(Len(frac)))

JsonPath(r) == OutputPath(BaseName(inputFile[r]), JsonSuffix)
CsvPath(r) == OutputPath(BaseName(inputFile[r]), CsvSuffix)

Exited(r) == pc[r] = "exited"
Completed(r) == pc[r] = "exited" /\ exitCode[r] = 0
Failed(r) == pc[r] = "exited" /\ exitCode[r] = 1

\* the run has written its summary record
SummaryWritten(r) == pc[r] \in {"create_csv", "csv_header", "csv_loop", "eventloop"}
                     \/ (Exited(r) /\ csvStream[r].state # "none")

\* the chunks the run has passed to csvStream.write so far, in order
Emitted(r) ==
  (IF csvStream[r].state \in {"open", "finished", "errored"} /\ files[csvStream[r].path].exists
     THEN files[csvStream[r].path].text ELSE <<>>) \o csvStream[r].buffer

\* q is v tenths: q = v / 10
IsTenthOf(q, v) == q.d > 0 /\ q.n * 10 = v * q.d

RECURSIVE SumSeq(_)
SumSeq(s) == IF s = <<>> THEN 0 ELSE s[1] + SumSeq(Tail(s))

\* ------------------------------------------------------------------ claims
\* every row of the grid has been passed to the CSV stream
AllRowsEmitted(r) ==
  /\ csvStream[r].state # "none"
  /\ Len(Emitted(r)) = Len(thermalData[r].data) + 1

\* C1: the summary record exists only once the last tabular row has been
\* emitted, and a run that ends in failure leaves no summary record behind.
C1_SummaryOnlyAfterFullPass ==
  \A r \in procs :
    /\ files[JsonPath(r)].exists => AllRowsEmitted(r)
    /\ Failed(r) => ~files[JsonPath(r)].exists

\* C2: the temperature the statistics loop observes for pixel i is
\* data[i] / 10 whatever the thermal parameters are, and the temperature
\* column of the CSV row of pixel i reads back as that same value.
C2_ConversionIsRawOverTen ==
  \A r \in procs :
    /\ (pc[r] = "stats_loop" /\ i[r] > 0)
         => IsTenthOf(temp[r], thermalData[r].data[i[r]])
    /\ \A k \in 2..Len(Emitted(r)) :
         /\ Len(Fields(Emitted(r)[k])) = 3
         /\ IsTenthOf(ParseDecimal(Fields(Emitted(r)[k])[3]), thermalData[r].data[k - 1])
         /\ ParseDecimal(Fields(Emitted(r)[k])[3]) = StatTemp(thermalData[r], k - 2)

C2_Witness ==
  \E r \in procs :
    /\ Completed(r)
    /\ thermalData[r].parameters.emissivity = 2
    /\ thermalData[r].data = <<0 - 5, 215>>
    /\ Len(files[CsvPath(r)].text) = 3

\* the statistics of the summary record of run r
SummaryStats(r) == files[JsonPath(r)].text.statistics

\* a <= b for finite numbers
Leq(a, b) == a.n * b.d <= b.n * a.d

RowX(line) == ParseDecimal(Fields(line)[1])
RowY(line) == ParseDecimal(Fields(line)[2])

\* C4: the CSV starts with the header, written once, followed by one row per
\* pixel in ascending pixel index, the row of index k carrying x = k mod width
\* and y = k div width; the file of a completed run has every coordinate of
\* the grid in exactly one row and no coordinate outside the grid.
C4_TabularLayout ==
  \A r \in procs :
    LET e == Emitted(r)
        w == thermalData[r].width
        h == thermalData[r].height
        text == files[CsvPath(r)].text
    IN /\ Len(e) >= 1 => e[1] = HeaderLine
       /\ \A k \in 2..Len(e) :
            /\ e[k] # HeaderLine
            /\ Len(Fields(e[k])) = 3
            /\ RowX(e[k]) = Number((k - 2) % w)
            /\ RowY(e[k]) = Number((k - 2) \div w)
            /\ (k - 2) % w < w /\ (k - 2) \div w < h
       /\ Len(e) <= Len(thermalData[r].data) + 1
       /\ Completed(r) =>
            /\ files[CsvPath(r)].exists
            /\ text = e
            /\ Len(text) = Len(thermalData[r].data) + 1
            /\ \A x \in 0..(w - 1), y \in 0..(h - 1) :
                 Cardinality({ k \in 2..Len(text) :
                   RowX(text[k]) = Number(x) /\ RowY(text[k]) = Number(y) }) = 1

C4_Witness ==
  \E r \in procs :
    /\ Completed(r)
    /\ thermalData[r].width = 2 /\ thermalData[r].height = 2
    /\ Len(files[CsvPath(r)].text) = 5
    /\ RowX(files[CsvPath(r)].text[5]) = Number(1)
    /\ RowY(files[CsvPath(r)].text[5]) = Number(1)

\* the statistics of run r have been printed
StatsReported(r) == SummaryWritten(r) \/ pc[r] = "write_json"
                    \/ (pc[r] \in {"catch", "exited"} /\ stdout[r] # NoStats)

\* C5: a run over zero temperatures never prints or stores NaN, Infinity or
\* -Infinity as a statistic: what it prints and what it stores says that
\* there is no data.
C5_NoDataReported ==
  \A r \in procs :
    (StatsReported(r) /\ Len(thermalData[r].data) = 0) =>
      /\ stdout[r].average # ToFixed2(NaN)
      /\ stdout[r].min # ToFixed2(PosInfinity)
      /\ stdout[r].max # ToFixed2(NegInfinity)
      /\ SummaryWritten(r) => "noData" \in DOMAIN SummaryStats(r)

\* C6: a run that ends with exit status 1 leaves neither its summary file nor
\* its CSV file in the output directory.
C6_FailureLeavesNoOutput ==
  \A r \in procs :
    Failed(r) => /\ ~files[JsonPath(r)].exists
                 /\ ~files[CsvPath(r)].exists

\* what run r writes to its two files when it runs alone
CsvAlone(r) ==
  <<HeaderLine>> \o [k \in 1..Len(thermalData[r].data) |-> CsvRow(thermalData[r], k - 1)]

SummaryAlone(r) ==
  SummaryText(thermalData[r], minTemp[r], maxTemp[r], avgTemp[r])

\* C7 (under SpecConc): once two runs on different input images have both
\* completed, the summary file and the CSV file of each are what that run
\* writes when it runs alone.
C7_ConcurrentRunsIsolated ==
  (\A r \in procs : Completed(r)) =>
    \A r \in procs :
      /\ files[JsonPath(r)] = WholeFile(SummaryAlone(r))
      /\ files[CsvPath(r)] = WholeFile(CsvAlone(r))

\* the temperature column of the CSV file of run r, read back and summed
RECURSIVE SumColumn(_)
SumColumn(rows) ==
  IF rows = <<>> THEN Number(0)
  ELSE Add(ParseDecimal(Fields(rows[1])[3]), SumColumn(Tail(rows)))

\* C8: for a completed run the CSV file has as many rows as the statistics
\* were computed over, and the sum of its temperature column divided by its
\* number of rows is the average of the summary record.
C8_RoundTrip ==
  \A r \in procs :
    Completed(r) =>
      LET rows == Tail(files[CsvPath(r)].text)
          avg == SummaryStats(r).average
      IN /\ Len(rows) = Len(thermalData[r].data)
         /\ Len(rows) > 0 =>
              /\ avg.type = "number"
              /\ avg.value = Div(SumColumn(rows), Number(Len(rows)))
              /\ avg.value.n * 10 * Len(rows) = SumSeq(thermalData[r].data) * avg.value.d

C8_Witness ==
  \E r \in procs :
    /\ Completed(r)
    /\ thermalData[r].data = <<0 - 5, 215, 215, 0 - 5>>
    /\ Len(files[CsvPath(r)].text) = 5
    /\ SummaryStats(r).average.value = Div(Number(21), Number(2))

C10_StreamClosedOnExit ==
  \A r \in procs :
    (Exited(r) /\ csvStream[r].state # "none") =>
      /\ csvStream[r].state = "finished"
      /\ csvStream[r].buffer = <<>>

====
